---------------------------- MODULE Spec2Model ----------------------------
(***************************************************************************)
(* A model of the HTTP/1.1 server: the request parser (header.rs), the     *)
(* router (processing.rs), the response serializer (response.rs) and the   *)
(* per-connection driver loop (main.rs).                                   *)
(*                                                                         *)
(* A byte string is a sequence of one-character strings; "\r" and "\n" are *)
(* carriage return and line feed.                                          *)
(***************************************************************************)
EXTENDS Integers, Sequences, FiniteSets, TLC

VARIABLES
    directory,   \* Router.directory: None or Some(path), fixed at startup
    fs,          \* the served directory: file name -> content
    pc,          \* per connection: where handle_connection stands
    sockIn,      \* per connection: bytes sent by the peer, not yet read
    peerClosed,  \* per connection: the peer has closed its sending side
    in_buf,      \* per connection: handle_connection's in_buf
    out_buf,     \* per connection: handle_connection's out_buf
    request,     \* per connection: the Request of the last cycle that parsed
    resp,        \* per connection: the Response of the last cycle that routed
    wire,        \* per connection: one entry per write_response call
    fault,       \* per connection: why the task ended, if it ended abnormally
    cycle,       \* per connection: iterations of the driver loop begun
    fsOutcome,   \* per connection: outcome of the last cycle's file-system call
    posted,      \* history: file name -> body of the last POST answered 201
    size,        \* per connection: load_request's size
    taken,       \* history, per connection: the bytes try_read returned in this cycle
    buf,         \* the byte slice handed to request::parse (function checks)
    stage,       \* how far the function pipeline parse -> process -> write is
    parsed,      \* the result of request::parse(buf)
    routed,      \* the result of Router::process
    emitted      \* the bytes Response::write appended to an empty buffer

vars == <<directory, fs, pc, sockIn, peerClosed, in_buf, out_buf, request,
          resp, wire, fault, cycle, fsOutcome, posted, size, taken, buf, stage,
          parsed, routed, emitted>>

connVars == <<pc, sockIn, peerClosed, in_buf, out_buf, request, resp, wire,
              fault, cycle, fsOutcome, posted, size, taken>>

fnVars == <<buf, stage, parsed, routed, emitted>>

---------------------------------------------------------------------------
(* Option<T> and nom's IResult *)

None == [tag |-> "None"]

Some(x) == [tag |-> "Some", v |-> x]

\* Err(nom::Err::Error(..)): every parser below fails recoverably (no cut)
Err == [ok |-> FALSE]

\* Ok((rest, val))
Ok(rest, val) == [ok |-> TRUE, rest |-> rest, val |-> val]

Drop(s, n) == SubSeq(s, n + 1, Len(s))

Take(s, n) == SubSeq(s, 1, n)

StartsWith(s, p) == Len(s) >= Len(p) /\ Take(s, Len(p)) = p

---------------------------------------------------------------------------
(* Byte strings used by the code *)

SP == " "

COLON == ":"

SLASH == "/"

QMARK == "?"

CR == "\r"

LF == "\n"

END_LINE == <<CR, LF>>

GET == <<"G", "E", "T">>

POST == <<"P", "O", "S", "T">>

HTTP11 == <<"H", "T", "T", "P", "/", "1", ".", "1">>

LowerCase == <<"a", "b", "c", "d", "e", "f", "g", "h", "i", "j", "k", "l", "m",
               "n", "o", "p", "q", "r", "s", "t", "u", "v", "w", "x", "y", "z">>

UpperCase == <<"A", "B", "C", "D", "E", "F", "G", "H", "I", "J", "K", "L", "M",
               "N", "O", "P", "Q", "R", "S", "T", "U", "V", "W", "X", "Y", "Z">>

\* u8::to_ascii_uppercase / str::to_uppercase on ASCII
to_uppercase_byte(c) ==
    IF \E i \in 1..26 : LowerCase[i] = c
    THEN UpperCase[CHOOSE i \in 1..26 : LowerCase[i] = c]
    ELSE c

to_uppercase(s) == [i \in 1..Len(s) |-> to_uppercase_byte(s[i])]

---------------------------------------------------------------------------
(* nom combinators, complete versions *)

\* bytes::complete::tag_no_case
tag_no_case(t, b) ==
    IF Len(b) >= Len(t) /\ to_uppercase(Take(b, Len(t))) = to_uppercase(t)
    THEN Ok(Drop(b, Len(t)), Take(b, Len(t)))
    ELSE Err

\* character::complete::char
char(c, b) ==
    IF Len(b) >= 1 /\ b[1] = c THEN Ok(Drop(b, 1), c) ELSE Err

\* the length of the longest prefix of b holding no byte of stop
PrefixLen(stop, b) ==
    IF \E i \in 1..Len(b) : b[i] \in stop
    THEN (CHOOSE i \in 1..Len(b) :
              b[i] \in stop /\ \A j \in 1..(i - 1) : b[j] \notin stop) - 1
    ELSE Len(b)

\* bytes::complete::take_till: never fails, takes everything when no byte stops it
take_till(stop, b) ==
    Ok(Drop(b, PrefixLen(stop, b)), Take(b, PrefixLen(stop, b)))

\* bytes::complete::take_until: fails when the byte does not occur
take_until(c, b) ==
    IF \E i \in 1..Len(b) : b[i] = c
    THEN Ok(Drop(b, PrefixLen({c}, b)), Take(b, PrefixLen({c}, b)))
    ELSE Err

---------------------------------------------------------------------------
(* header.rs: the message model *)

\* impl From<&str> for Method, on the upper-cased token
MethodFrom(s) == IF s = GET THEN "Get" ELSE "Post"

\* impl From<&str> for Version
VersionFrom(s) == "Http11"

\* str::split('/') followed by the filter that skips empty pieces
RECURSIVE SplitSections(_)
SplitSections(uri) ==
    IF uri = <<>> THEN <<>>
    ELSE LET n == PrefixLen({SLASH}, uri)
             piece == Take(uri, n)
             rest == IF n < Len(uri) THEN Drop(uri, n + 1) ELSE <<>>
         IN  (IF piece = <<>> THEN <<>> ELSE <<piece>>) \o SplitSections(rest)

\* impl From<&str> for Url
UrlFrom(value) ==
    LET hasQ == \E i \in 1..Len(value) : value[i] = QMARK
        n == PrefixLen({QMARK}, value)
        uri == IF hasQ THEN Take(value, n) ELSE value
        query == IF hasQ THEN Some(Drop(value, n + 1)) ELSE None
    IN  IF uri = <<SLASH>>
        THEN [sections |-> <<(<<SLASH>>)>>, query |-> query]
        ELSE [sections |-> SplitSections(uri), query |-> query]

---------------------------------------------------------------------------
(* header.rs: mod parsing *)

parse_new_line(b) ==
    LET r1 == char(CR, b)
    IN  IF ~r1.ok THEN Err
        ELSE LET r2 == char(LF, r1.rest)
             IN  IF ~r2.ok THEN Err ELSE Ok(r2.rest, r2.rest)

parse_method(b) ==
    LET g == tag_no_case(GET, b)
        p == tag_no_case(POST, b)
        r == IF g.ok THEN g ELSE p
    IN  IF ~r.ok THEN Err ELSE Ok(r.rest, MethodFrom(to_uppercase(r.val)))

parse_url(b) ==
    LET r == take_until(SP, b)
    IN  IF ~r.ok THEN Err ELSE Ok(r.rest, UrlFrom(r.val))

parse_version(b) ==
    LET r == tag_no_case(HTTP11, b)
    IN  IF ~r.ok THEN Err ELSE Ok(r.rest, VersionFrom(to_uppercase(r.val)))

parse_request_line(b) ==
    LET m == parse_method(b)
    IN  IF ~m.ok THEN Err ELSE
        LET s1 == char(SP, m.rest)
        IN  IF ~s1.ok THEN Err ELSE
            LET u == parse_url(s1.rest)
            IN  IF ~u.ok THEN Err ELSE
                LET s2 == char(SP, u.rest)
                IN  IF ~s2.ok THEN Err ELSE
                    LET v == parse_version(s2.rest)
                    IN  IF ~v.ok THEN Err
                        ELSE Ok(v.rest, [method |-> m.val, url |-> u.val,
                                         version |-> v.val])

parse_header_line(b) ==
    LET k == take_till({COLON}, b)
        c == char(COLON, k.rest)
    IN  IF ~c.ok THEN Err ELSE
        LET s == char(SP, c.rest)
        IN  IF ~s.ok THEN Err ELSE
            LET v == take_till({CR}, s.rest)
            IN  Ok(v.rest, <<k.val, v.val>>)

\* terminated(parse_header_line, parse_new_line)
header_line_nl(b) ==
    LET l == parse_header_line(b)
    IN  IF ~l.ok THEN Err ELSE
        LET n == parse_new_line(l.rest)
        IN  IF ~n.ok THEN Err ELSE Ok(n.rest, l.val)

\* HashMap::insert: the later value of a key replaces the earlier one
MapInsert(map, k, v) ==
    [x \in (DOMAIN map) \cup {k} |-> IF x = k THEN v ELSE map[x]]

EmptyMap == [x \in {} |-> <<>>]

\* fold_many0: apply the line parser until it fails; its failure ends the fold
\* with what was accumulated and the input left where the failing line starts
RECURSIVE fold_header_lines(_, _)
fold_header_lines(b, map) ==
    LET l == header_line_nl(b)
    IN  IF ~l.ok THEN Ok(b, map)
        ELSE fold_header_lines(l.rest, MapInsert(map, l.val[1], l.val[2]))

parse_header_lines(b) == fold_header_lines(b, EmptyMap)

parse_header(b) ==
    LET rl == parse_request_line(b)
    IN  IF ~rl.ok THEN Err ELSE
        LET nl == parse_new_line(rl.rest)
        IN  IF ~nl.ok THEN Err ELSE
            LET hs == parse_header_lines(nl.rest)
            IN  Ok(hs.rest, [method |-> rl.val.method, url |-> rl.val.url,
                             version |-> rl.val.version, headers |-> hs.val])

\* a parse that reports no body when nothing follows the blank line
parsing_parse_dropping_empty(b) ==
    LET h == parse_header(b)
    IN  IF ~h.ok THEN Err
        ELSE IF StartsWith(h.rest, END_LINE) /\ Len(h.rest) > 2
             THEN Ok(<<>>, [header |-> h.val, body |-> Some(Drop(h.rest, 2))])
             ELSE IF StartsWith(h.rest, END_LINE)
             THEN Ok(<<>>, [header |-> h.val, body |-> None])
             ELSE Ok(h.rest, [header |-> h.val, body |-> None])

\* parsing::parse: the body is Some exactly when a CRLF follows the header lines
parsing_parse(b) ==
    LET h == parse_header(b)
    IN  IF ~h.ok THEN Err
        ELSE IF StartsWith(h.rest, END_LINE)
             THEN Ok(<<>>, [header |-> h.val, body |-> Some(Drop(h.rest, 2))])
             ELSE Ok(h.rest, [header |-> h.val, body |-> None])

\* request::parse: the same result with the pair swapped, the error reformatted
parse(b) == parsing_parse(b)

---------------------------------------------------------------------------
(* Strings the router and the driver compare against or emit *)

ROOT == <<SLASH>>

ECHO == <<"e", "c", "h", "o">>

USER_AGENT == <<"u", "s", "e", "r", "-", "a", "g", "e", "n", "t">>

FILES == <<"f", "i", "l", "e", "s">>

CONNECTION == <<"C", "o", "n", "n", "e", "c", "t", "i", "o", "n">>

KEEP_ALIVE == <<"k", "e", "e", "p", "-", "a", "l", "i", "v", "e">>

ACCEPT_ENCODING == <<"A", "c", "c", "e", "p", "t", "-", "E", "n", "c", "o", "d", "i", "n", "g">>

GZIP == <<"g", "z", "i", "p">>

CONTENT_TYPE == <<"C", "o", "n", "t", "e", "n", "t", "-", "T", "y", "p", "e">>

CONTENT_LENGTH == <<"C", "o", "n", "t", "e", "n", "t", "-", "L", "e", "n", "g", "t", "h">>

CONTENT_ENCODING == <<"C", "o", "n", "t", "e", "n", "t", "-", "E", "n", "c", "o", "d", "i", "n", "g">>

TEXT_PLAIN == <<"t", "e", "x", "t", "/", "p", "l", "a", "i", "n">>

OCTET_STREAM == <<"a", "p", "p", "l", "i", "c", "a", "t", "i", "o", "n", "/", "o", "c", "t", "e", "t", "-", "s", "t", "r", "e", "a", "m">>

Digits == <<"0", "1", "2", "3", "4", "5", "6", "7", "8", "9">>

\* format!("{}", n) for a usize
RECURSIVE Decimal(_)
Decimal(n) ==
    IF n < 10 THEN <<Digits[n + 1]>>
    ELSE Decimal(n \div 10) \o <<Digits[(n % 10) + 1]>>

---------------------------------------------------------------------------
(* response.rs: Status, ContentType, Headers *)

\* Status::code
code(status) ==
    CASE status = "Ok" -> <<"2", "0", "0">>
      [] status = "Created" -> <<"2", "0", "1">>
      [] status = "Forbidden" -> <<"4", "0", "3">>
      [] status = "NotFound" -> <<"4", "0", "4">>
      [] status = "InternalServerError" -> <<"5", "0", "0">>

\* Status::reason
reason(status) ==
    CASE status = "Ok" -> <<"O", "K">>
      [] status = "Created" -> <<"C", "r", "e", "a", "t", "e", "d">>
      [] status = "Forbidden" -> <<"F", "o", "r", "b", "i", "d", "d", "e", "n">>
      [] status = "NotFound" -> <<"N", "o", "t", " ", "F", "o", "u", "n", "d">>
      [] status = "InternalServerError" -> <<"I", "n", "t", "e", "r", "n", "a", "l", " ", "S", "e", "r", "v", "e", "r", " ", "E", "r", "r", "o", "r">>

\* Version::text
version_text(v) == HTTP11

\* ContentType::text
content_type_text(ct) ==
    IF ct = "TextPlain" THEN TEXT_PLAIN ELSE OCTET_STREAM

\* Encoding::text (the enumeration holds Gzip only)
encoding_text(enc) == GZIP

\* the variants of enum Headers
ContentType(ct) == [variant |-> "ContentType", v |-> ct]

ContentLength(n) == [variant |-> "ContentLength", n |-> n]

AcceptEncoding(enc) == [variant |-> "AcceptEncoding", v |-> enc]

ContentEncoding(enc) == [variant |-> "ContentEncoding", v |-> enc]

\* Headers::text
header_text(h) ==
    CASE h.variant = "ContentType" -> <<CONTENT_TYPE, content_type_text(h.v)>>
      [] h.variant = "ContentLength" -> <<CONTENT_LENGTH, Decimal(h.n)>>
      [] h.variant = "AcceptEncoding" -> <<ACCEPT_ENCODING, encoding_text(h.v)>>
      [] h.variant = "ContentEncoding" -> <<CONTENT_ENCODING, encoding_text(h.v)>>

\* derive(PartialOrd, Ord) on Headers: by variant in declaration order, then by
\* the variant's value
VariantRank(h) ==
    CASE h.variant = "ContentType" -> 1
      [] h.variant = "ContentLength" -> 2
      [] h.variant = "AcceptEncoding" -> 3
      [] h.variant = "ContentEncoding" -> 4

ValueRank(h) ==
    CASE h.variant = "ContentType" -> (IF h.v = "TextPlain" THEN 0 ELSE 1)
      [] h.variant = "ContentLength" -> h.n
      [] OTHER -> 0

HeaderLess(a, b) ==
    \/ VariantRank(a) < VariantRank(b)
    \/ VariantRank(a) = VariantRank(b) /\ ValueRank(a) < ValueRank(b)

\* iteration of the BTreeSet, least header first
RECURSIVE InOrder(_)
InOrder(hs) ==
    IF hs = {} THEN <<>>
    ELSE LET m == CHOOSE h \in hs : \A o \in hs \ {h} : HeaderLess(h, o)
         IN  <<m>> \o InOrder(hs \ {m})

---------------------------------------------------------------------------
(* response.rs: impl Response *)

\* libflate's gzip Encoder: the member header, the deflate stream, the trailer
\* (CRC32 and ISIZE). The deflate stream is kept as one stored block, so the
\* encoded bytes differ from the body in content and in length.
GzipMemberHeader ==
    <<"x1f", "x8b", "x08", "x00", "mt", "mt", "mt", "mt", "xfl", "os">>

GzipTrailer == <<"crc", "crc", "crc", "crc", "isz", "isz", "isz", "isz">>

StoredBlock(body) == <<"bfinal", "len", "len", "nlen", "nlen">> \o body

gzip_encode(body) == GzipMemberHeader \o StoredBlock(body) \o GzipTrailer

\* Response::insert
insert(key, value, b) == b \o key \o <<COLON, SP>> \o value \o END_LINE

handle_response_line(r, b) ==
    b \o version_text(r.version) \o <<SP>> \o code(r.status) \o <<SP>>
      \o reason(r.status) \o END_LINE

RECURSIVE EmitHeaders(_, _)
EmitHeaders(hs, b) ==
    IF hs = <<>> THEN b
    ELSE IF Head(hs).variant = "ContentLength"
         THEN EmitHeaders(Tail(hs), b)
         ELSE EmitHeaders(Tail(hs),
                  insert(header_text(Head(hs))[1], header_text(Head(hs))[2], b))

handle_headers(r, b) == EmitHeaders(InOrder(r.headers), b)

\* the closure handle_writing of handle_body
handle_writing(b, body) ==
    insert(header_text(ContentLength(Len(body)))[1],
           header_text(ContentLength(Len(body)))[2], b) \o END_LINE \o body

\* a handle_body that takes Content-Length from the body before compression
handle_body_raw_length(r, b) ==
    IF r.body = None THEN b \o END_LINE
    ELSE IF r.accept_encoding = None THEN handle_writing(b, r.body.v)
    ELSE insert(header_text(ContentLength(Len(r.body.v)))[1],
                header_text(ContentLength(Len(r.body.v)))[2],
                insert(header_text(ContentEncoding(r.accept_encoding.v))[1],
                       header_text(ContentEncoding(r.accept_encoding.v))[2], b))
         \o END_LINE \o gzip_encode(r.body.v)

handle_body(r, b) ==
    IF r.body = None THEN b \o END_LINE
    ELSE IF r.accept_encoding = None THEN handle_writing(b, r.body.v)
    ELSE handle_writing(
             insert(header_text(ContentEncoding(r.accept_encoding.v))[1],
                    header_text(ContentEncoding(r.accept_encoding.v))[2], b),
             gzip_encode(r.body.v))

\* Response::write
write(r, b) == handle_body(r, handle_headers(r, handle_response_line(r, b)))

---------------------------------------------------------------------------
(* processing.rs: Router *)

\* request.header.accept_encoding: Some(Gzip) when the request's
\* Accept-Encoding header is exactly "gzip", None otherwise
accept_encoding(req) ==
    IF ACCEPT_ENCODING \in DOMAIN req.header.headers
       /\ req.header.headers[ACCEPT_ENCODING] = GZIP
    THEN Some("Gzip")
    ELSE None

\* constructors that leave the negotiated encoding out
Built_without_encoding(status, req) ==
    [version |-> "Http11", status |-> status, headers |-> {},
     accept_encoding |-> None, body |-> None]

\* the four constructors differ in the status only
Built(status, req) ==
    [version |-> "Http11", status |-> status, headers |-> {},
     accept_encoding |-> accept_encoding(req), body |-> None]

created(req) == Built("Created", req)

ok(req) == Built("Ok", req)

not_found(req) == Built("NotFound", req)

internal_server_error(req) == Built("InternalServerError", req)

\* what a handler hands back: a Response and the directory's files after it,
\* or a panic that unwinds the task
Reply(r, files) == [panic |-> FALSE, resp |-> r, fs |-> files]

Panic == [panic |-> TRUE]

\* outcomes of one file-system call
IoOutcomes == {"ok", "err"}

root(req, files) == Reply(ok(req), files)

echo(req, files) ==
    LET sections == req.header.url.sections
    IN  IF Len(sections) = 1 THEN Reply(not_found(req), files)
        ELSE Reply([ok(req) EXCEPT !.headers = @ \cup {ContentType("TextPlain")},
                                   !.body = Some(sections[2])], files)

\* request.header.headers["user-agent"]: indexing a HashMap panics on a
\* missing key
user_agent(req, files) ==
    IF USER_AGENT \notin DOMAIN req.header.headers THEN Panic
    ELSE Reply([ok(req) EXCEPT !.headers = @ \cup {ContentType("TextPlain")},
                               !.body = Some(req.header.headers[USER_AGENT])],
               files)

\* a files_get that takes a missing directory for a missing file
files_get_unconfigured(req, dir, files, io) ==
    LET sections == req.header.url.sections
    IN  IF Len(sections) = 1 \/ dir = None \/ sections[2] \notin DOMAIN files
        THEN Reply(not_found(req), files)
        ELSE IF io = "err" THEN Reply(internal_server_error(req), files)
        ELSE Reply([ok(req) EXCEPT
                        !.headers = @ \cup {ContentType("OctentStream")},
                        !.body = Some(files[sections[2]])], files)

\* try_exists and read happen at two awaits; no operation removes a file, so
\* the pair answers as one look at the directory does
files_get(req, dir, files, io) ==
    LET sections == req.header.url.sections
    IN  IF Len(sections) = 1 THEN Reply(not_found(req), files)
        ELSE IF dir = None THEN Reply(internal_server_error(req), files)
        ELSE IF sections[2] \notin DOMAIN files
             THEN (IF io = "err" THEN Reply(internal_server_error(req), files)
                   ELSE Reply(not_found(req), files))
        ELSE IF io = "err" THEN Reply(internal_server_error(req), files)
        ELSE Reply([ok(req) EXCEPT
                        !.headers = @ \cup {ContentType("OctentStream")},
                        !.body = Some(files[sections[2]])], files)

\* a files_post that joins the directory with the first segment
files_post_first_segment(req, dir, files, io) ==
    LET sections == req.header.url.sections
    IN  IF Len(sections) = 1 THEN Reply(not_found(req), files)
        ELSE IF dir = None THEN Reply(internal_server_error(req), files)
        ELSE IF req.body = None THEN Reply(internal_server_error(req), files)
        ELSE IF io = "err" THEN Reply(internal_server_error(req), files)
        ELSE Reply(created(req), MapInsert(files, sections[1], req.body.v))

files_post(req, dir, files, io) ==
    LET sections == req.header.url.sections
    IN  IF Len(sections) = 1 THEN Reply(not_found(req), files)
        ELSE IF dir = None THEN Reply(internal_server_error(req), files)
        ELSE IF req.body = None THEN Reply(internal_server_error(req), files)
        ELSE IF io = "err" THEN Reply(internal_server_error(req), files)
        ELSE Reply(created(req), MapInsert(files, sections[2], req.body.v))

files_route(req, dir, files, io) ==
    IF req.header.method = "Get" THEN files_get(req, dir, files, io)
    ELSE files_post(req, dir, files, io)

\* Router::process; url.sections[0] panics on an empty segment list
process(req, dir, files, io) ==
    LET sections == req.header.url.sections
    IN  IF Len(sections) = 0 THEN Panic
        ELSE CASE sections[1] = ROOT -> root(req, files)
               [] sections[1] = ECHO -> echo(req, files)
               [] sections[1] = USER_AGENT -> user_agent(req, files)
               [] sections[1] = FILES -> files_route(req, dir, files, io)
               [] OTHER -> Reply(not_found(req), files)

---------------------------------------------------------------------------
(* main.rs: the connection driver *)

\* let mut buf = [0; 1024] in load_request
BufLen == 1024

\* one try_read of load_request on a readable socket: what it returns and
\* what it leaves. avail is what the peer sent and was not read yet.
try_read(avail) ==
    LET n == IF Len(avail) < BufLen THEN Len(avail) ELSE BufLen
    IN  [n |-> n, data |-> Take(avail, n), left |-> Drop(avail, n)]

\* a write_response that drops write_all's error
write_response_swallowing(b, n) == "ok"

\* write_all in write_response: Ok when the socket took every byte
write_response(b, n) == IF n = Len(b) THEN "ok" ELSE "err"

\* a driver that leaves the loop whenever a Connection header is present
after_response_closing(req) == "Closed"

\* the end of the loop body: where the driver goes once the response is out
after_response(req) ==
    IF CONNECTION \in DOMAIN req.header.headers
    THEN (IF req.header.headers[CONNECTION] = KEEP_ALIVE
          THEN "Reading"
          ELSE "Reading")
    ELSE "Closed"

\* history: the body of the last POST to a files name that was answered 201;
\* a POST whose write failed leaves the name without a known content
Posted(old, req, r) ==
    IF r.status = "Created"
    THEN MapInsert(old, req.header.url.sections[2], req.body.v)
    ELSE IF /\ req.header.method = "Post"
            /\ req.header.url.sections[1] = FILES
            /\ Len(req.header.url.sections) > 1
    THEN [x \in (DOMAIN old) \ {req.header.url.sections[2]} |-> old[x]]
    ELSE old

\* how many bytes the socket may take before write_all fails
Shortfalls(b) == {n \in {0, 1, Len(b) - 1} : n < Len(b)}

\* the peer sends the bytes of one request, once the last one was answered
ClientSend(c, r) ==
    /\ pc[c] = "Reading"
    /\ ~peerClosed[c]
    /\ sockIn[c] = <<>>
    /\ sockIn' = [sockIn EXCEPT ![c] = r]
    /\ UNCHANGED <<directory, fs, pc, peerClosed, in_buf, out_buf, request,
                   resp, wire, fault, cycle, fsOutcome, posted, size, taken>>
    /\ UNCHANGED fnVars

\* the peer closes its side, instead of sending a request or before it has
\* read the response
ClientClose(c) ==
    /\ ~peerClosed[c]
    /\ pc[c] \in {"Reading", "Writing"}
    /\ peerClosed' = [peerClosed EXCEPT ![c] = TRUE]
    /\ UNCHANGED <<directory, fs, pc, sockIn, in_buf, out_buf, request, resp,
                   wire, fault, cycle, fsOutcome, posted, size, taken>>
    /\ UNCHANGED fnVars

Readable(c) == sockIn[c] # <<>> \/ peerClosed[c]

\* a clear that leaves the bytes in place
clear_keeping(b) == b

\* Vec::clear
clear(b) == <<>>

\* the top of the loop: clear both buffers, then wait until readable
BeginCycle(c) ==
    /\ pc[c] = "Reading"
    /\ Readable(c)
    /\ in_buf' = [in_buf EXCEPT ![c] = clear(@)]
    /\ out_buf' = [out_buf EXCEPT ![c] = clear(@)]
    /\ size' = [size EXCEPT ![c] = 0]
    /\ taken' = [taken EXCEPT ![c] = <<>>]
    /\ request' = [request EXCEPT ![c] = None]
    /\ resp' = [resp EXCEPT ![c] = None]
    /\ fsOutcome' = [fsOutcome EXCEPT ![c] = "none"]
    /\ cycle' = [cycle EXCEPT ![c] = @ + 1]
    /\ pc' = [pc EXCEPT ![c] = "Loading"]
    /\ UNCHANGED <<directory, fs, sockIn, peerClosed, wire, fault, posted>>
    /\ UNCHANGED fnVars

\* load_request, one turn of its loop: Ok(0) ends the connection, a short
\* read ends the request, a full chunk asks for more
LoadRequest(c) ==
    /\ pc[c] = "Loading"
    /\ Readable(c)
    /\ LET got == try_read(sockIn[c])
       IN  /\ sockIn' = [sockIn EXCEPT ![c] = got.left]
           /\ in_buf' = [in_buf EXCEPT ![c] = @ \o got.data]
           /\ size' = [size EXCEPT ![c] = @ + got.n]
           /\ taken' = [taken EXCEPT ![c] = @ \o got.data]
           /\ pc' = [pc EXCEPT ![c] = IF got.n = 0 THEN "Closed"
                                      ELSE IF got.n < BufLen THEN "Loaded"
                                      ELSE "Loading"]
    /\ UNCHANGED <<directory, fs, peerClosed, out_buf, request, resp, wire,
                   fault, cycle, fsOutcome, posted>>
    /\ UNCHANGED fnVars

\* parse, route and serialize the request that was read: a parse error or a
\* panic of the router ends the task, with nothing appended to out_buf
Handle(c) ==
    /\ pc[c] = "Loaded"
    /\ \E outcome \in IoOutcomes :
       \E p \in {parse(Take(in_buf[c], size[c]))} :
       \E r \in {IF p.ok THEN process(p.val, directory, fs, outcome)
                 ELSE Panic} :
         /\ fsOutcome' = [fsOutcome EXCEPT ![c] = outcome]
         /\ IF ~p.ok
            THEN /\ fault' = [fault EXCEPT ![c] = "parse"]
                 /\ pc' = [pc EXCEPT ![c] = "Failed"]
                 /\ UNCHANGED <<request, resp, out_buf, fs, posted>>
            ELSE IF r.panic
            THEN /\ fault' = [fault EXCEPT ![c] = "panic"]
                 /\ pc' = [pc EXCEPT ![c] = "Failed"]
                 /\ request' = [request EXCEPT ![c] = p.val]
                 /\ UNCHANGED <<resp, out_buf, fs, posted>>
            ELSE /\ request' = [request EXCEPT ![c] = p.val]
                 /\ resp' = [resp EXCEPT ![c] = r.resp]
                 /\ out_buf' = [out_buf EXCEPT ![c] = write(r.resp, @)]
                 /\ fs' = r.fs
                 /\ posted' = Posted(posted, p.val, r.resp)
                 /\ pc' = [pc EXCEPT ![c] = "Writing"]
                 /\ fault' = fault
    /\ UNCHANGED <<directory, sockIn, peerClosed, in_buf, wire, cycle, size,
                   taken>>
    /\ UNCHANGED fnVars

\* write_response, then the keep-alive decision
WriteResponse(c) ==
    /\ pc[c] = "Writing"
    /\ \E n \in Shortfalls(out_buf[c]) \cup {Len(out_buf[c])} :
         /\ wire' = [wire EXCEPT
                         ![c] = Append(@, [len |-> Len(out_buf[c]), n |-> n,
                                           bytes |-> Take(out_buf[c], n)])]
         /\ IF write_response(out_buf[c], n) = "ok"
            THEN /\ pc' = [pc EXCEPT ![c] = after_response(request[c])]
                 /\ fault' = fault
            ELSE /\ pc' = [pc EXCEPT ![c] = "Failed"]
                 /\ fault' = [fault EXCEPT ![c] = "io"]
    /\ UNCHANGED <<directory, fs, sockIn, peerClosed, in_buf, out_buf, request,
                   resp, cycle, fsOutcome, posted, size, taken>>
    /\ UNCHANGED fnVars

---------------------------------------------------------------------------
(* The function pipeline: request::parse, Router::process and             *)
(* Response::write applied to one input                                   *)

ParseStep ==
    /\ stage = "input"
    /\ parsed' = parse(buf)
    /\ stage' = "parsed"
    /\ UNCHANGED <<directory, fs, buf, routed, emitted>>
    /\ UNCHANGED connVars

ProcessStep ==
    /\ stage = "parsed"
    /\ parsed.ok
    /\ \E outcome \in IoOutcomes :
         /\ routed' = process(parsed.val, directory, fs, outcome)
         /\ fs' = IF routed'.panic THEN fs ELSE routed'.fs
    /\ stage' = "routed"
    /\ UNCHANGED <<directory, buf, parsed, emitted>>
    /\ UNCHANGED connVars

WriteStep ==
    /\ stage = "routed"
    /\ ~routed.panic
    /\ emitted' = write(routed.resp, <<>>)
    /\ stage' = "written"
    /\ UNCHANGED <<directory, fs, buf, parsed, routed>>
    /\ UNCHANGED connVars

---------------------------------------------------------------------------
(* The environment: what peers send, what the directory holds at startup *)

\* header lines per generated request, at most
MaxHeaders == 2

\* loop iterations per connection, at most
MaxCycles == 2

\* requests over all connections sharing a directory, at most
MaxShared == 3

RequestLine(m, target, v) == m \o <<SP>> \o target \o <<SP>> \o v \o END_LINE

HeaderLine(k, v) == k \o <<COLON, SP>> \o v \o END_LINE

FileF == <<"f">>

Dir == Some(<<"d", "i", "r">>)

Directories == {None, Dir}

StartFiles == {EmptyMap, [x \in {FileF} |-> <<"o", "l", "d">>]}

TargetRoot == <<"/">>

TargetNope == <<"/", "n", "o", "p", "e">>

TargetEcho == <<"/", "e", "c", "h", "o">>

TargetEchoAbc == <<"/", "e", "c", "h", "o", "/", "a", "b", "c">>

TargetUserAgent == <<"/", "u", "s", "e", "r", "-", "a", "g", "e", "n", "t">>

TargetFiles == <<"/", "f", "i", "l", "e", "s">>

TargetFilesF == <<"/", "f", "i", "l", "e", "s", "/", "f">>

TargetFilesG == <<"/", "f", "i", "l", "e", "s", "/", "g">>

BodyNew == <<"n", "e", "w">>

BodyAlt == <<"b">>

\* targets of the function pipeline
FnTargets ==
    {TargetRoot, TargetNope, TargetEcho, TargetEchoAbc, TargetUserAgent,
     TargetFiles, TargetFilesF, <<"/", "/">>}

\* header lines of the function pipeline, two of them without ": "
FnHeaderLines ==
    {HeaderLine(<<"U", "s", "e", "r", "-", "A", "g", "e", "n", "t">>, <<"u", "a">>),
     HeaderLine(USER_AGENT, <<"u", "b">>),
     HeaderLine(ACCEPT_ENCODING, GZIP),
     HeaderLine(ACCEPT_ENCODING, <<"b", "r">>),
     <<"N", "o", "S", "e", "p", "a", "r", "a", "t", "o", "r">> \o END_LINE,
     <<"K", ":", "v">> \o END_LINE}

RECURSIVE HeaderBlocks(_)
HeaderBlocks(n) ==
    IF n = 0 THEN {<<>>}
    ELSE HeaderBlocks(n - 1)
         \cup {b \o l : b \in HeaderBlocks(n - 1), l \in FnHeaderLines}

\* what follows the header lines: nothing, a blank line, a blank line and a
\* body, a blank line and bytes that read as one more header line
Tails ==
    {<<>>, END_LINE, END_LINE \o BodyNew, END_LINE \o HeaderLine(<<"k">>, <<"v">>)}

\* request lines that are odd or malformed
OddRequestLines ==
    {RequestLine(<<"g", "e", "t">>, TargetRoot, <<"h", "t", "t", "p", "/", "1", ".", "1">>),
     RequestLine(<<"P", "U", "T">>, TargetRoot, HTTP11),
     RequestLine(GET, TargetRoot, <<"H", "T", "T", "P", "/", "1", ".", "0">>),
     GET \o <<SP>> \o TargetRoot \o END_LINE,
     GET \o <<SP>> \o TargetRoot \o <<SP>> \o HTTP11,
     RequestLine(GET, <<>>, HTTP11),
     RequestLine(GET, <<"?", "x">>, HTTP11),
     RequestLine(GET, <<"/", "a", "?", "x", "=", "1">>, HTTP11)}

FnInputs ==
    {RequestLine(m, target, HTTP11) \o b \o tail :
         m \in {GET, POST}, target \in FnTargets,
         b \in HeaderBlocks(MaxHeaders), tail \in Tails}
    \cup {l \o tail : l \in OddRequestLines, tail \in Tails}

\* responses handed to Response::write directly
FnResponses ==
    [version : {"Http11"},
     status : {"Ok", "Created", "Forbidden", "NotFound", "InternalServerError"},
     headers : SUBSET {ContentType("TextPlain"), ContentType("OctentStream"),
                       ContentLength(0), ContentLength(7),
                       ContentEncoding("Gzip")},
     accept_encoding : {None, Some("Gzip")},
     body : {None, Some(<<>>), Some(BodyNew)}]

\* Connection header lines a peer may send: none, keep-alive, two others
ConnectionLines ==
    {<<>>, HeaderLine(CONNECTION, KEEP_ALIVE), HeaderLine(CONNECTION, <<"c", "l", "o", "s", "e">>),
     HeaderLine(CONNECTION, <<"K", "e", "e", "p", "-", "A", "l", "i", "v", "e">>)}

\* what the peer of the single connection sends
DriverRequests ==
    {RequestLine(GET, target, HTTP11) \o c \o END_LINE :
         target \in {TargetRoot, TargetNope, TargetEchoAbc, TargetFilesF},
         c \in ConnectionLines}
    \cup {RequestLine(POST, TargetFilesF, HTTP11) \o c \o END_LINE \o BodyNew :
              c \in ConnectionLines}
    \cup {RequestLine(<<"P", "U", "T">>, TargetRoot, HTTP11)
              \o HeaderLine(CONNECTION, KEEP_ALIVE) \o END_LINE,
          RequestLine(GET, TargetRoot, <<"H", "T", "T", "P", "/", "1", ".", "0">>)
              \o HeaderLine(CONNECTION, KEEP_ALIVE) \o END_LINE,
          GET \o <<SP>> \o TargetRoot \o END_LINE \o END_LINE,
          RequestLine(GET, TargetUserAgent, HTTP11)
              \o HeaderLine(<<"U", "s", "e", "r", "-", "A", "g", "e", "n", "t">>, <<"u", "a">>)
              \o HeaderLine(CONNECTION, KEEP_ALIVE) \o END_LINE}

\* what the peers of the connections sharing a directory send
SharedRequests ==
    {RequestLine(GET, TargetFilesF, HTTP11)
         \o HeaderLine(CONNECTION, KEEP_ALIVE) \o END_LINE,
     RequestLine(POST, TargetFilesF, HTTP11)
         \o HeaderLine(CONNECTION, KEEP_ALIVE) \o END_LINE \o BodyNew,
     RequestLine(POST, TargetFilesF, HTTP11)
         \o HeaderLine(CONNECTION, KEEP_ALIVE) \o END_LINE \o BodyAlt,
     RequestLine(POST, TargetFilesG, HTTP11)
         \o HeaderLine(CONNECTION, KEEP_ALIVE) \o END_LINE \o BodyNew}

---------------------------------------------------------------------------
(* Specifications *)

\* the connections of the one-connection and of the shared-directory model
One == {1}

Two == {1, 2}

IdleFn ==
    /\ buf = <<>>
    /\ stage = "idle"
    /\ parsed = Err
    /\ routed = Panic
    /\ emitted = <<>>

InitConns(cs) ==
    /\ pc = [c \in cs |-> "Reading"]
    /\ sockIn = [c \in cs |-> <<>>]
    /\ peerClosed = [c \in cs |-> FALSE]
    /\ in_buf = [c \in cs |-> <<>>]
    /\ out_buf = [c \in cs |-> <<>>]
    /\ request = [c \in cs |-> None]
    /\ resp = [c \in cs |-> None]
    /\ wire = [c \in cs |-> <<>>]
    /\ fault = [c \in cs |-> "none"]
    /\ cycle = [c \in cs |-> 0]
    /\ fsOutcome = [c \in cs |-> "none"]
    /\ posted = EmptyMap
    /\ size = [c \in cs |-> 0]
    /\ taken = [c \in cs |-> <<>>]

\* one connection, every kind of request
Init ==
    /\ directory \in Directories
    /\ fs \in StartFiles
    /\ InitConns(One)
    /\ IdleFn

Next ==
    \E c \in One :
        \/ \E r \in DriverRequests : cycle[c] < MaxCycles /\ ClientSend(c, r)
        \/ ClientClose(c)
        \/ BeginCycle(c)
        \/ LoadRequest(c)
        \/ Handle(c)
        \/ WriteResponse(c)

Spec == Init /\ [][Next]_vars

\* requests sent on connection c so far: the cycles begun and the request
\* waiting to be read
Sent(c) == cycle[c] + (IF pc[c] = "Reading" /\ sockIn[c] # <<>> THEN 1 ELSE 0)

RECURSIVE SentOn(_)
SentOn(cs) ==
    IF cs = {} THEN 0
    ELSE LET c == CHOOSE x \in cs : TRUE IN Sent(c) + SentOn(cs \ {c})

\* two connections served from one directory, their peers staying connected
InitShared ==
    /\ directory = Dir
    /\ fs \in StartFiles
    /\ InitConns(Two)
    /\ IdleFn

NextShared ==
    \E c \in Two :
        \/ \E r \in SharedRequests :
               /\ SentOn(Two) < MaxShared
               /\ ClientSend(c, r)
        \/ BeginCycle(c)
        \/ LoadRequest(c)
        \/ Handle(c)
        \/ WriteResponse(c)

SpecShared == InitShared /\ [][NextShared]_vars

\* the functions, applied to one request's bytes
InitRequest ==
    /\ directory \in Directories
    /\ fs \in StartFiles
    /\ InitConns({})
    /\ buf \in FnInputs
    /\ stage = "input"
    /\ parsed = Err
    /\ routed = Panic
    /\ emitted = <<>>

NextRequest == ParseStep \/ ProcessStep \/ WriteStep

SpecRequest == InitRequest /\ [][NextRequest]_vars

\* Response::write, applied to one response
InitWrite ==
    /\ directory = None
    /\ fs = EmptyMap
    /\ InitConns({})
    /\ buf = <<>>
    /\ stage = "routed"
    /\ parsed = Err
    /\ routed \in {Reply(r, EmptyMap) : r \in FnResponses}
    /\ emitted = <<>>

NextWrite == WriteStep

SpecWrite == InitWrite /\ [][NextWrite]_vars

---------------------------------------------------------------------------
(* One connection whose peer sends one request and waits for the reply    *)

\* the longest request sent is MaxChunks full chunks of load_request, plus one byte
MaxChunks == 2

\* n bytes of padding
Filler(n) == [i \in 1..n |-> "a"]

\* a well-formed GET of the echo route, n bytes long
EchoOfLength(n) ==
    RequestLine(GET, TargetEcho \o <<SLASH>> \o Filler(n - 23), HTTP11) \o END_LINE

\* a well-formed POST to files/f, n bytes long with its body
PostOfLength(n) ==
    RequestLine(POST, TargetFilesF, HTTP11) \o END_LINE \o Filler(n - 26)

\* request lengths around the multiples of the chunk size, and short ones
WaitingLengths ==
    {30, 100} \cup {k * BufLen + d : k \in 1..MaxChunks, d \in {-1, 0, 1}}

WaitingRequests ==
    {EchoOfLength(n) : n \in WaitingLengths}
    \cup {PostOfLength(n) : n \in WaitingLengths}

InitWaiting ==
    /\ directory \in Directories
    /\ fs \in StartFiles
    /\ InitConns(One)
    /\ IdleFn

\* the peer sends one request and then neither sends nor closes
NextWaiting ==
    \E c \in One :
        \/ \E r \in WaitingRequests : cycle[c] = 0 /\ ClientSend(c, r)
        \/ BeginCycle(c)
        \/ LoadRequest(c)
        \/ Handle(c)
        \/ WriteResponse(c)

\* the runtime polls a task again whenever what it awaits is ready: each
\* step of the task is taken once it stays possible. Handle is possible
\* exactly while pc is "Loaded" and every Handle step leaves "Loaded", so its
\* weak fairness is stated as []<>(pc # "Loaded").
TaskFairness(c) ==
    /\ WF_vars(BeginCycle(c))
    /\ WF_vars(LoadRequest(c))
    /\ WF_vars(WriteResponse(c))
    /\ []<>(pc[c] # "Loaded")

SpecWaiting ==
    InitWaiting /\ [][NextWaiting]_vars /\ \A c \in One : TaskFairness(c)

---------------------------------------------------------------------------
(* Reading a message as lines, for the properties below *)

BLANK == END_LINE \o END_LINE

\* where the first CRLF CRLF of b starts, 0 when b holds none
BlankAt(b) ==
    IF \E i \in 1..(Len(b) - 3) : SubSeq(b, i, i + 3) = BLANK
    THEN CHOOSE i \in 1..(Len(b) - 3) :
             /\ SubSeq(b, i, i + 3) = BLANK
             /\ \A j \in 1..(i - 1) : SubSeq(b, j, j + 3) # BLANK
    ELSE 0

\* the bytes after the first blank line
AfterBlank(b) == Drop(b, BlankAt(b) + 3)

\* the lines before the first blank line, the last one's CRLF included; all
\* of b when it holds no blank line
HeadOf(b) == IF BlankAt(b) = 0 THEN b ELSE Take(b, BlankAt(b) + 1)

CrlfAt(b) ==
    IF \E i \in 1..(Len(b) - 1) : SubSeq(b, i, i + 1) = END_LINE
    THEN CHOOSE i \in 1..(Len(b) - 1) :
             /\ SubSeq(b, i, i + 1) = END_LINE
             /\ \A j \in 1..(i - 1) : SubSeq(b, j, j + 1) # END_LINE
    ELSE 0

\* the CRLF-terminated lines of b, without their CRLF
RECURSIVE TerminatedLines(_)
TerminatedLines(b) ==
    LET i == CrlfAt(b)
    IN  IF i = 0 THEN <<>>
        ELSE <<Take(b, i - 1)>> \o TerminatedLines(Drop(b, i + 1))

\* what follows the last CRLF of b
RECURSIVE Unterminated(_)
Unterminated(b) ==
    LET i == CrlfAt(b)
    IN  IF i = 0 THEN b ELSE Unterminated(Drop(b, i + 1))

\* the terminated lines between the request line and the first blank line
HeaderBlockLines(b) ==
    LET lines == TerminatedLines(HeadOf(b))
    IN  IF lines = <<>> THEN <<>> ELSE Tail(lines)

\* the line's first colon is missing or not followed by a space
LacksSeparator(l) ==
    LET n == PrefixLen({COLON}, l)
    IN  ~(n + 2 <= Len(l) /\ l[n + 2] = SP)

HasByte(l, c) == \E i \in 1..Len(l) : l[i] = c

\* a valid request line and CRLF, header lines KEY ": " VALUE CRLF without a
\* CR in them, then nothing more, or a blank line and bytes without a colon
PlainMessage(b) ==
    LET lines == TerminatedLines(HeadOf(b))
    IN  /\ lines # <<>>
        /\ parse_request_line(Head(lines)).ok
        /\ parse_request_line(Head(lines)).rest = <<>>
        /\ \A i \in 2..Len(lines) :
               ~LacksSeparator(lines[i]) /\ ~HasByte(lines[i], CR)
        /\ IF BlankAt(b) = 0 THEN Unterminated(b) = <<>>
           ELSE ~HasByte(AfterBlank(b), COLON)

LinesStarting(lines, prefix) ==
    {i \in 1..Len(lines) : StartsWith(lines[i], prefix)}

HasRouted == stage \in {"routed", "written"} /\ parsed.ok

FirstSegmentIs(req, name) ==
    /\ req.header.url.sections # <<>>
    /\ req.header.url.sections[1] = name

HasHeader(req, k) == k \in DOMAIN req.header.headers

KeepAliveAsked(req) ==
    /\ HasHeader(req, CONNECTION)
    /\ req.header.headers[CONNECTION] = KEEP_ALIVE

\* connection c has just had a response written in full
Answered(c) ==
    /\ pc[c] = "Writing"
    /\ Len(wire'[c]) = Len(wire[c]) + 1
    /\ wire'[c][Len(wire'[c])].n = wire'[c][Len(wire'[c])].len

---------------------------------------------------------------------------
(* Properties *)

\* C1 (as claimed): once the response is written, the connection is Closed
\* whenever the request's Connection header is absent or is anything other
\* than exactly "keep-alive".
C1_ClosesUnlessKeepAlive ==
    [][\A c \in One :
          (Answered(c) /\ ~KeepAliveAsked(request[c])) => pc'[c] = "Closed"]_vars

\* C2: once the response to a parsed request carrying Connection: keep-alive
\* is written, the driver is back in Reading, whatever the response's status.
C2_KeepAliveContinues ==
    [][\A c \in One :
          (Answered(c) /\ KeepAliveAsked(request[c])) => pc'[c] = "Reading"]_vars

\* C2 witness: a second request was served on the connection after a
\* keep-alive request, it was answered 500, and the driver reads on
C2_Witness ==
    /\ pc[1] = "Reading"
    /\ Len(wire[1]) = 2
    /\ wire[1][1].n = wire[1][1].len
    /\ wire[1][2].n = wire[1][2].len
    /\ resp[1] # None
    /\ resp[1].status = "InternalServerError"
    /\ request[1] # None
    /\ KeepAliveAsked(request[1])

\* C3: when the bytes of a cycle fail to parse, the task has ended, no
\* response was serialized or written for that cycle, and every response of
\* an earlier cycle went out in full.
C3_ParseErrorWritesNothing ==
    \A c \in DOMAIN pc :
        fault[c] = "parse" =>
            /\ pc[c] = "Failed"
            /\ out_buf[c] = <<>>
            /\ Len(wire[c]) = cycle[c] - 1
            /\ \A i \in 1..Len(wire[c]) : wire[c][i].n = wire[c][i].len

\* C3 witness: a parse failure in the second cycle of a connection
C3_Witness ==
    /\ fault[1] = "parse"
    /\ cycle[1] = 2
    /\ Len(wire[1]) = 1

\* C4 (as claimed): a parsed request whose first segment is "user-agent" and
\* whose headers hold the key User-Agent is answered 200, text/plain, with
\* that header's value as the body.
C4_UserAgentReflected ==
    (/\ HasRouted
     /\ FirstSegmentIs(parsed.val, USER_AGENT)
     /\ HasHeader(parsed.val, <<"U", "s", "e", "r", "-", "A", "g", "e", "n", "t">>))
    => /\ ~routed.panic
       /\ routed.resp.status = "Ok"
       /\ ContentType("TextPlain") \in routed.resp.headers
       /\ routed.resp.body = Some(parsed.val.header.headers[<<"U", "s", "e", "r", "-", "A", "g", "e", "n", "t">>])

C6_MissingSeparatorFails ==
    (/\ stage = "parsed"
     /\ \E i \in 1..Len(HeaderBlockLines(buf)) :
            LacksSeparator(HeaderBlockLines(buf)[i]))
    => ~parsed.ok

\* C7: the bytes Response::write emits hold no Content-Length line when the
\* response has no body and exactly one when it has, whose value is the
\* number of bytes emitted after the blank line, whatever ContentLength the
\* header set stores.
C7_ContentLengthIsEmittedLength ==
    stage = "written" =>
        LET lines == TerminatedLines(HeadOf(emitted))
            at == LinesStarting(lines, CONTENT_LENGTH \o <<COLON, SP>>)
        IN  /\ BlankAt(emitted) # 0
            /\ IF routed.resp.body = None
               THEN at = {} /\ AfterBlank(emitted) = <<>>
               ELSE /\ Cardinality(at) = 1
                    /\ \A i \in at :
                           lines[i] = CONTENT_LENGTH \o <<COLON, SP>>
                                          \o Decimal(Len(AfterBlank(emitted)))
                    /\ AfterBlank(emitted) =
                           IF routed.resp.accept_encoding = None
                           THEN routed.resp.body.v
                           ELSE gzip_encode(routed.resp.body.v)

\* C7 witness: a gzip-encoded body written for a response whose header set
\* stores another ContentLength
C7_Witness ==
    /\ stage = "written"
    /\ ContentLength(7) \in routed.resp.headers
    /\ routed.resp.accept_encoding = Some("Gzip")
    /\ routed.resp.body = Some(BodyNew)

\* connection c has just routed a request to the files route with a name
RoutedFiles(c, method) ==
    /\ pc[c] = "Loaded"
    /\ pc'[c] = "Writing"
    /\ request'[c].header.method = method
    /\ FirstSegmentIs(request'[c], FILES)
    /\ Len(request'[c].header.url.sections) > 1
    /\ fsOutcome'[c] = "ok"

\* C8: with a directory configured and no file-system failure, a POST to
\* /files/<name> with a body is answered 201, and a GET of /files/<name> that
\* is routed after the last such POST to that name is answered 200,
\* application/octet-stream, with that POST's body, on either connection.
C8_FilesRoundTrip ==
    [][\A c \in Two :
          /\ (RoutedFiles(c, "Post") /\ directory # None
                  /\ request'[c].body # None)
             => resp'[c].status = "Created"
          /\ (RoutedFiles(c, "Get") /\ directory # None
                  /\ request'[c].header.url.sections[2] \in DOMAIN posted)
             => /\ resp'[c].status = "Ok"
                /\ ContentType("OctentStream") \in resp'[c].headers
                /\ resp'[c].body =
                       Some(posted[request'[c].header.url.sections[2]])]_vars

\* C8 witness: connection 2 is answering its first request, a GET of
\* /files/f, with the body that connection 1 posted last, after an earlier
\* POST of another body
C8_Witness ==
    /\ pc[2] = "Writing"
    /\ cycle[2] = 1
    /\ cycle[1] = 2
    /\ request[2].header.method = "Get"
    /\ FileF \in DOMAIN posted
    /\ posted[FileF] = BodyAlt
    /\ fs[FileF] = BodyAlt
    /\ resp[2].status = "Ok"
    /\ resp[2].body = Some(BodyAlt)

\* C9 (as claimed): with no directory configured, every request whose first
\* segment is "files" is answered 500.
C9_NoDirectoryAlways500 ==
    (HasRouted /\ directory = None /\ FirstSegmentIs(parsed.val, FILES))
    => (~routed.panic /\ routed.resp.status = "InternalServerError")

\* C9 (amended): with no directory configured, every request whose first
\* segment is "files" and that has a second segment is answered 500, GET or
\* POST, with or without a body; without a second segment it is answered 404.
C9_NoDirectory500WithName ==
    (HasRouted /\ directory = None /\ FirstSegmentIs(parsed.val, FILES))
    => /\ ~routed.panic
       /\ routed.resp.status =
              IF Len(parsed.val.header.url.sections) > 1
              THEN "InternalServerError"
              ELSE "NotFound"

\* C9 witness: a POST to /files/f with a body, no directory, answered 500
C9_Witness ==
    /\ HasRouted
    /\ directory = None
    /\ FirstSegmentIs(parsed.val, FILES)
    /\ Len(parsed.val.header.url.sections) > 1
    /\ parsed.val.header.method = "Post"
    /\ parsed.val.body # None
    /\ routed.resp.status = "InternalServerError"

GzipAsked(req) ==
    /\ HasHeader(req, ACCEPT_ENCODING)
    /\ req.header.headers[ACCEPT_ENCODING] = GZIP

\* C10: on every route the response carries the encoding negotiated from the
\* request, and its serialization holds the line Content-Encoding: gzip
\* exactly when the request's Accept-Encoding is "gzip" and the response has
\* a body; a response without a body holds no Content-Encoding line.
C10_ContentEncodingIffGzipAndBody ==
    /\ (HasRouted /\ ~routed.panic) =>
           routed.resp.accept_encoding =
               IF GzipAsked(parsed.val) THEN Some("Gzip") ELSE None
    /\ stage = "written" =>
           LET lines == TerminatedLines(HeadOf(emitted))
               at == LinesStarting(lines, CONTENT_ENCODING \o <<COLON, SP>>)
           IN  /\ at # {} <=> (GzipAsked(parsed.val) /\ routed.resp.body # None)
               /\ \A i \in at :
                      lines[i] = CONTENT_ENCODING \o <<COLON, SP>> \o GZIP
               /\ Cardinality(at) <= 1

\* C10 witness: an echo answered with a gzip-encoded body
C10_Witness ==
    /\ stage = "written"
    /\ FirstSegmentIs(parsed.val, ECHO)
    /\ GzipAsked(parsed.val)
    /\ routed.resp.body # None
    /\ LinesStarting(TerminatedLines(HeadOf(emitted)),
                     CONTENT_ENCODING \o <<COLON, SP>> \o GZIP) # {}

\* the last write_response call on connection c
LastWrite(c) == wire[c][Len(wire[c])]

\* C11: in every cycle the bytes handed to parse are exactly the bytes read
\* from the socket in that cycle, the request routed is the parse of those
\* bytes, the output buffer holds exactly the serialization of that cycle's
\* response, and that serialization is what write_response puts on the
\* socket; nothing of an earlier cycle is left in either buffer.
C11_CycleBuffersHoldOnlyThisCycle ==
    \A c \in DOMAIN pc :
        /\ pc[c] = "Loaded" => Take(in_buf[c], size[c]) = taken[c]
        /\ pc[c] = "Writing" =>
               /\ parse(taken[c]).ok
               /\ request[c] = parse(taken[c]).val
               /\ out_buf[c] = write(resp[c], <<>>)
        /\ (resp[c] # None /\ pc[c] # "Writing") =>
               /\ wire[c] # <<>>
               /\ LastWrite(c).len = Len(write(resp[c], <<>>))
               /\ LastWrite(c).bytes = Take(write(resp[c], <<>>), LastWrite(c).n)

\* C11 witness: a kept-alive connection whose second cycle was answered in
\* full with a response other than the one of its first cycle
C11_Witness ==
    /\ cycle[1] = 2
    /\ pc[1] = "Reading"
    /\ resp[1] # None
    /\ Len(wire[1]) = 2
    /\ wire[1][1].n = wire[1][1].len
    /\ wire[1][2].n = wire[1][2].len
    /\ wire[1][1].bytes # wire[1][2].bytes
    /\ wire[1][2].bytes = write(resp[1], <<>>)

\* C12 (as claimed): every request that parse returns has at least one path
\* segment, and Router::process yields a response for it; the only request
\* it may fail on is one of the user-agent route, never one with an empty
\* segment list.
C12_ParsedRequestHasSegment ==
    HasRouted =>
        /\ parsed.val.header.url.sections # <<>>
        /\ routed.panic => FirstSegmentIs(parsed.val, USER_AGENT)

\* C13 (as claimed): once the peer has sent a complete well-formed request
\* and keeps the connection open, the driver eventually calls write_response
\* for it, whatever the length of the request.
C13_RequestEventuallyAnswered ==
    \A c \in One : (sockIn[c] # <<>>) ~> (wire[c] # <<>>)

=============================================================================
